---------------------------- MODULE Spec2Model ----------------------------
(***************************************************************************)
(* Model of the DeFiLlama ingestion pipeline (src/ingestion/ingest.py)     *)
(* and of the relational schema it writes                                  *)
(* (src/ingestion/migrations/versions/20240524_0001_initial_schema.py).    *)
(*                                                                         *)
(* JSON values are tagged records, store rows are records, tables are sets *)
(* of rows.  Every SQL statement the code issues is an operator from a     *)
(* store to a statement result [st, id, ok]; ok = FALSE is the statement   *)
(* raising (the store is then unchanged, apart from the sequences).        *)
(***************************************************************************)
EXTENDS Integers, Sequences, FiniteSets, TLC

VARIABLES
    db,             \* the committed store: tables and sequences
    tx,             \* the store as seen inside the run's open transaction
    pc,             \* where main() is
    clock,          \* wall-clock time, in ticks
    tx_now,         \* NOW() of the open transaction
    snapshot_date,  \* process_records: local snapshot_date
    fetched_at,     \* process_records: local fetched_at
    ingested,       \* process_records: local ingested
    upserted,       \* sync_projects: local upserted
    failed,         \* the stage whose exception ended main(), or "none"
    current,        \* the loop variable `record` of sync_projects / process_records
    pos,            \* records of the current feed consumed so far
    used,           \* feed records consumed so far (bounded exploration)
    payload,        \* replay specification: the feeds of the run being repeated
    counts,         \* replay specification: which run it is, and the row counts
                    \* and the day when it began
    cdb,            \* concurrent specification: the committed store
    own,            \* concurrent specification: each run's uncommitted writes
    locks,          \* concurrent specification: the keys each run holds locked
    feed,           \* concurrent specification: the records each run fetched
    rpc,            \* concurrent specification: where each run is
    stmt,           \* concurrent specification: each run's next statement
    locals,         \* concurrent specification: each run's local variables
    attempt,        \* wait_for_database: loop variable `attempt`
    waited          \* wait_for_database: seconds spent in time.sleep

vars == <<db, tx, pc, clock, tx_now, snapshot_date, fetched_at, ingested,
          upserted, failed, current, pos, used, payload, counts,
          cdb, own, locks, feed, rpc, stmt, locals, attempt, waited>>

-----------------------------------------------------------------------------
(* Bounds of the exploration *)

MaxClock == 2
MaxRecords == 3

-----------------------------------------------------------------------------
(* JSON values and SQL NULL *)

NULL == [k |-> "null"]
Str(s) == [k |-> "str", s |-> s]
Num(n) == [k |-> "num", n |-> n]

\* Python truthiness of a JSON scalar: `not value`
Truthy(v) ==
    CASE v.k = "null" -> FALSE
      [] v.k = "str" -> v.s # ""
      [] v.k = "num" -> v.n # 0
      [] OTHER -> TRUE

\* Decimal(text): the numerals of the modelled feeds parse, other text raises
\* InvalidOperation
ParseDecimal(s) ==
    CASE s = "1" -> Num(1)
      [] s = "2" -> Num(2)
      [] s = "3" -> Num(3)
      [] OTHER -> NULL

to_decimal(value) ==
    CASE value.k = "null" -> NULL
      [] value.k = "num" -> Num(value.n)
      [] value.k = "str" -> ParseDecimal(value.s)
      [] OTHER -> NULL

\* Whether the store accepts a raw value for an INTEGER column: an integer,
\* NULL, or text that reads as an integer; other text is a DataError.
IntegerColumnAccepts(v) ==
    \/ v.k \in {"null", "num"}
    \/ v.k = "str" /\ ParseDecimal(v.s) # NULL

IntegerColumn(v) == IF v.k = "str" THEN ParseDecimal(v.s) ELSE v

\* datetime.now(timezone.utc).date(): a UTC day is two ticks long
DateOf(t) == t \div 2

-----------------------------------------------------------------------------
(* The store *)

EmptyStore ==
    [chains |-> {}, projects |-> {}, pools |-> {}, snaps |-> {},
     seq |-> [chains |-> 0, projects |-> 0, snaps |-> 0]]

Tables(s) ==
    [chains |-> s.chains, projects |-> s.projects, pools |-> s.pools,
     snaps |-> s.snaps]

Stmt(st, id, ok) == [st |-> st, id |-> id, ok |-> ok]


-----------------------------------------------------------------------------
(* Identity resolver *)

\* INSERT INTO chains (name) ... ON CONFLICT (name) DO UPDATE SET name =
\* excluded.name RETURNING id.  The id default draws from the sequence before
\* the conflict is detected, so a conflicting upsert leaves a gap.
upsert_chain(s, chain_name) ==
    LET nid == s.seq.chains + 1
        s1 == [s EXCEPT !.seq.chains = nid]
        hit == {r \in s.chains : r.name = chain_name}
    IN  IF hit = {}
        THEN Stmt([s1 EXCEPT !.chains = @ \cup {[id |-> nid, name |-> chain_name]}],
                  nid, TRUE)
        ELSE LET old == CHOOSE r \in hit : TRUE
                 new == [old EXCEPT !.name = chain_name]
             IN  Stmt([s1 EXCEPT !.chains = (@ \ {old}) \cup {new}], new.id, TRUE)

\* A resolver whose conflict clause writes the whole excluded row.
ensure_project_overwrites(s, project_name, py_now, sql_now) ==
    LET nid == s.seq.projects + 1
        s1 == [s EXCEPT !.seq.projects = nid]
        hit == {r \in s.projects : r.name = project_name}
        old == CHOOSE r \in hit : TRUE
        new == IF hit = {}
               THEN [id |-> nid, name |-> project_name, slug |-> NULL,
                     tvl |-> NULL, created_at |-> sql_now, updated_at |-> py_now]
               ELSE [old EXCEPT !.slug = NULL, !.tvl = NULL,
                                !.updated_at = sql_now]
    IN  Stmt([s1 EXCEPT !.projects = (@ \ hit) \cup {new}], new.id, TRUE)

\* INSERT INTO projects (name, updated_at) ... ON CONFLICT (name) DO UPDATE
\* SET name = excluded.name, updated_at = NOW() RETURNING id
ensure_project(s, project_name, py_now, sql_now) ==
    LET nid == s.seq.projects + 1
        s1 == [s EXCEPT !.seq.projects = nid]
        hit == {r \in s.projects : r.name = project_name}
    IN  IF hit = {}
        THEN Stmt([s1 EXCEPT !.projects = @ \cup
                      {[id |-> nid, name |-> project_name, slug |-> NULL,
                        tvl |-> NULL, created_at |-> sql_now,
                        updated_at |-> py_now]}],
                  nid, TRUE)
        ELSE LET old == CHOOSE r \in hit : TRUE
                 new == [old EXCEPT !.name = project_name, !.updated_at = sql_now]
             IN  Stmt([s1 EXCEPT !.projects = (@ \ {old}) \cup {new}], new.id, TRUE)

-----------------------------------------------------------------------------
(* Project metadata synchronizer *)

\* A projects table without a unique constraint on slug.
SlugTaken_not_enforced(projects, row) == FALSE

\* uq_projects_slug: no two rows share a non-null slug
SlugTaken(projects, row) ==
    /\ row.slug # NULL
    /\ \E r \in projects : r.name # row.name /\ r.slug = row.slug

\* A synchronizer that deletes the row of the name and inserts the record
\* afresh, under a new id.
upsert_project_metadata_reinserts(s, record, py_now, sql_now) ==
    IF ~Truthy(record.name)
    THEN Stmt(s, NULL, TRUE)
    ELSE
    LET nid == s.seq.projects + 1
        s1 == [s EXCEPT !.seq.projects = nid]
        hit == {r \in s.projects : r.name = record.name.s}
        new == [id |-> nid, name |-> record.name.s, slug |-> record.slug,
                tvl |-> to_decimal(record.tvl), created_at |-> sql_now,
                updated_at |-> py_now]
    IN  IF SlugTaken(s.projects, new)
        THEN Stmt(s1, NULL, FALSE)
        ELSE Stmt([s1 EXCEPT !.projects = (@ \ hit) \cup {new}], Num(new.id), TRUE)

\* A synchronizer that merges: a column the record leaves null keeps the value
\* it had.
upsert_project_metadata_merges(s, record, py_now, sql_now) ==
    IF ~Truthy(record.name)
    THEN Stmt(s, NULL, TRUE)
    ELSE
    LET nid == s.seq.projects + 1
        s1 == [s EXCEPT !.seq.projects = nid]
        hit == {r \in s.projects : r.name = record.name.s}
        old == CHOOSE r \in hit : TRUE
        new == IF hit = {}
               THEN [id |-> nid, name |-> record.name.s, slug |-> record.slug,
                     tvl |-> to_decimal(record.tvl), created_at |-> sql_now,
                     updated_at |-> py_now]
               ELSE [old EXCEPT !.slug = IF record.slug = NULL THEN @
                                         ELSE record.slug,
                                !.tvl = IF to_decimal(record.tvl) = NULL THEN @
                                        ELSE to_decimal(record.tvl),
                                !.updated_at = sql_now]
    IN  IF SlugTaken(s.projects, new)
        THEN Stmt(s1, NULL, FALSE)
        ELSE Stmt([s1 EXCEPT !.projects = (@ \ hit) \cup {new}], Num(new.id), TRUE)

\* upsert_project_metadata: None (id NULL, nothing executed) for a record
\* without a name; otherwise insert, or on a name conflict overwrite every
\* column of `values` but the name.  A slug held by another row raises.
upsert_project_metadata(s, record, py_now, sql_now) ==
    IF ~Truthy(record.name)
    THEN Stmt(s, NULL, TRUE)
    ELSE
    LET nid == s.seq.projects + 1
        s1 == [s EXCEPT !.seq.projects = nid]
        hit == {r \in s.projects : r.name = record.name.s}
        old == CHOOSE r \in hit : TRUE
        new == IF hit = {}
               THEN [id |-> nid, name |-> record.name.s, slug |-> record.slug,
                     tvl |-> to_decimal(record.tvl), created_at |-> sql_now,
                     updated_at |-> py_now]
               ELSE [old EXCEPT !.slug = record.slug,
                                !.tvl = to_decimal(record.tvl),
                                !.updated_at = sql_now]
    IN  IF SlugTaken(s.projects, new)
        THEN Stmt(s1, NULL, FALSE)
        ELSE Stmt([s1 EXCEPT !.projects = (@ \ hit) \cup {new}], Num(new.id), TRUE)

-----------------------------------------------------------------------------
(* Pool registry writer *)

\* pools.chain_id -> chains.id and pools.project_id -> projects.id
PoolForeignKeysHold(s, chain_id, project_id) ==
    /\ \E c \in s.chains : c.id = chain_id
    /\ \E p \in s.projects : p.id = project_id

\* A writer without the conflict clause on a table whose pool_id is not a key:
\* every call inserts.
upsert_pool_always_inserts(s, pool_id, chain_id, project_id, record, py_now, sql_now) ==
    LET new == [pool_id |-> pool_id, chain_id |-> chain_id,
                project_id |-> project_id, symbol |-> record.symbol,
                created_at |-> sql_now, updated_at |-> py_now]
    IN  IF ~PoolForeignKeysHold(s, chain_id, project_id)
        THEN Stmt(s, NULL, FALSE)
        ELSE Stmt([s EXCEPT !.pools = @ \cup {new}], NULL, TRUE)

\* A writer that replaces: it deletes the row of the pool id, and with it
\* (ON DELETE CASCADE) the snapshots of the pool, and inserts the record.
upsert_pool_replaces(s, pool_id, chain_id, project_id, record, py_now, sql_now) ==
    LET new == [pool_id |-> pool_id, chain_id |-> chain_id,
                project_id |-> project_id, symbol |-> record.symbol,
                created_at |-> sql_now, updated_at |-> py_now]
    IN  IF ~PoolForeignKeysHold(s, chain_id, project_id)
        THEN Stmt(s, NULL, FALSE)
        ELSE Stmt([s EXCEPT
                      !.pools = {r \in @ : r.pool_id # pool_id} \cup {new},
                      !.snaps = {r \in @ : r.pool_id # pool_id}],
                  NULL, TRUE)

\* A writer that binds the two ids to each other's column, on a table created
\* without the foreign keys.
upsert_pool_swapped_ids(s, pool_id, chain_id, project_id, record, py_now, sql_now) ==
    LET hit == {r \in s.pools : r.pool_id = pool_id}
        old == CHOOSE r \in hit : TRUE
        new == IF hit = {}
               THEN [pool_id |-> pool_id, chain_id |-> project_id,
                     project_id |-> chain_id, symbol |-> record.symbol,
                     created_at |-> sql_now, updated_at |-> py_now]
               ELSE [old EXCEPT !.chain_id = project_id,
                                !.project_id = chain_id,
                                !.symbol = record.symbol,
                                !.updated_at = sql_now]
    IN  Stmt([s EXCEPT !.pools = (@ \ hit) \cup {new}], NULL, TRUE)

upsert_pool(s, pool_id, chain_id, project_id, record, py_now, sql_now) ==
    LET hit == {r \in s.pools : r.pool_id = pool_id}
        old == CHOOSE r \in hit : TRUE
        new == IF hit = {}
               THEN [pool_id |-> pool_id, chain_id |-> chain_id,
                     project_id |-> project_id, symbol |-> record.symbol,
                     created_at |-> sql_now, updated_at |-> py_now]
               ELSE [old EXCEPT !.chain_id = chain_id,
                                !.project_id = project_id,
                                !.symbol = record.symbol,
                                !.updated_at = sql_now]
    IN  IF ~PoolForeignKeysHold(s, chain_id, project_id)
        THEN Stmt(s, NULL, FALSE)
        ELSE Stmt([s EXCEPT !.pools = (@ \ hit) \cup {new}], NULL, TRUE)

-----------------------------------------------------------------------------
(* Snapshot writer *)

\* A writer without the conflict clause on an unconstrained table: every call
\* inserts.
upsert_snapshot_always_inserts(s, pool_id, record, snap_date, fetch_time) ==
    LET nid == s.seq.snaps + 1
        s1 == [s EXCEPT !.seq.snaps = nid]
        new == [id |-> nid, pool_id |-> pool_id,
                snapshot_date |-> snap_date, fetched_at |-> fetch_time,
                tvl_usd |-> to_decimal(record.tvlUsd),
                observation_count |-> IntegerColumn(record.count),
                created_at |-> fetch_time]
    IN  IF \/ ~IntegerColumnAccepts(record.count)
           \/ ~\E p \in s.pools : p.pool_id = pool_id
        THEN Stmt(s1, NULL, FALSE)
        ELSE Stmt([s1 EXCEPT !.snaps = @ \cup {new}], NULL, TRUE)

\* A writer whose SET list also carries created_at.
upsert_snapshot_resets_created_at(s, pool_id, record, snap_date, fetch_time) ==
    LET nid == s.seq.snaps + 1
        s1 == [s EXCEPT !.seq.snaps = nid]
        hit == {r \in s.snaps :
                   r.pool_id = pool_id /\ r.snapshot_date = snap_date}
        old == CHOOSE r \in hit : TRUE
        new == [id |-> IF hit = {} THEN nid ELSE old.id, pool_id |-> pool_id,
                snapshot_date |-> snap_date, fetched_at |-> fetch_time,
                tvl_usd |-> to_decimal(record.tvlUsd),
                observation_count |-> IntegerColumn(record.count),
                created_at |-> fetch_time]
    IN  IF \/ ~IntegerColumnAccepts(record.count)
           \/ ~\E p \in s.pools : p.pool_id = pool_id
        THEN Stmt(s1, NULL, FALSE)
        ELSE Stmt([s1 EXCEPT !.snaps = (@ \ hit) \cup {new}], NULL, TRUE)

\* A writer whose SET list carries fetched_at alone.
upsert_snapshot_keeps_metrics(s, pool_id, record, snap_date, fetch_time) ==
    LET nid == s.seq.snaps + 1
        s1 == [s EXCEPT !.seq.snaps = nid]
        hit == {r \in s.snaps :
                   r.pool_id = pool_id /\ r.snapshot_date = snap_date}
        old == CHOOSE r \in hit : TRUE
        new == IF hit = {}
               THEN [id |-> nid, pool_id |-> pool_id,
                     snapshot_date |-> snap_date, fetched_at |-> fetch_time,
                     tvl_usd |-> to_decimal(record.tvlUsd),
                     observation_count |-> IntegerColumn(record.count),
                     created_at |-> fetch_time]
               ELSE [old EXCEPT !.fetched_at = fetch_time]
    IN  IF \/ ~IntegerColumnAccepts(record.count)
           \/ ~\E p \in s.pools : p.pool_id = pool_id
        THEN Stmt(s1, NULL, FALSE)
        ELSE Stmt([s1 EXCEPT !.snaps = (@ \ hit) \cup {new}], NULL, TRUE)

\* INSERT INTO pool_snapshots ... ON CONFLICT (pool_id, snapshot_date) DO
\* UPDATE SET fetched_at, <every metric>; created_at is not in the SET list.
\* tvl_usd stands for the columns written through to_decimal and
\* observation_count for those written raw.
upsert_snapshot(s, pool_id, record, snap_date, fetch_time) ==
    LET nid == s.seq.snaps + 1
        s1 == [s EXCEPT !.seq.snaps = nid]
        hit == {r \in s.snaps :
                   r.pool_id = pool_id /\ r.snapshot_date = snap_date}
        old == CHOOSE r \in hit : TRUE
        new == IF hit = {}
               THEN [id |-> nid, pool_id |-> pool_id,
                     snapshot_date |-> snap_date, fetched_at |-> fetch_time,
                     tvl_usd |-> to_decimal(record.tvlUsd),
                     observation_count |-> IntegerColumn(record.count),
                     created_at |-> fetch_time]
               ELSE [old EXCEPT !.fetched_at = fetch_time,
                                !.tvl_usd = to_decimal(record.tvlUsd),
                                !.observation_count = IntegerColumn(record.count)]
    IN  IF \/ ~IntegerColumnAccepts(record.count)
           \/ ~\E p \in s.pools : p.pool_id = pool_id
        THEN Stmt(s1, NULL, FALSE)
        ELSE Stmt([s1 EXCEPT !.snaps = (@ \ hit) \cup {new}], NULL, TRUE)

-----------------------------------------------------------------------------
(* Pipeline orchestrator: one iteration of the loop of process_records *)

Skipped(record) ==
    ~Truthy(record.pool) \/ ~Truthy(record.chain) \/ ~Truthy(record.project)

\* A loop body that catches the exception of the snapshot statement and goes
\* on with the next record.
process_record_ignores_snapshot_error(s, record, snap_date, fetch_time, py_now, sql_now) ==
    IF Skipped(record)
    THEN [st |-> s, n |-> 0, ok |-> TRUE]
    ELSE
    LET c == upsert_chain(s, record.chain.s)
        p == ensure_project(c.st, record.project.s, py_now, sql_now)
        q == upsert_pool(p.st, record.pool.s, c.id, p.id, record, py_now, sql_now)
        r == upsert_snapshot(q.st, record.pool.s, record, snap_date, fetch_time)
    IN  IF ~q.ok THEN [st |-> q.st, n |-> 0, ok |-> FALSE]
        ELSE IF ~r.ok THEN [st |-> q.st, n |-> 0, ok |-> TRUE]
        ELSE [st |-> r.st, n |-> 1, ok |-> TRUE]

\* A loop body that resolves the chain before it looks at the project name.
process_record_late_check(s, record, snap_date, fetch_time, py_now, sql_now) ==
    IF ~Truthy(record.pool) \/ ~Truthy(record.chain)
    THEN [st |-> s, n |-> 0, ok |-> TRUE]
    ELSE
    LET c == upsert_chain(s, record.chain.s)
    IN  IF ~Truthy(record.project)
        THEN [st |-> c.st, n |-> 0, ok |-> TRUE]
        ELSE
        LET p == ensure_project(c.st, record.project.s, py_now, sql_now)
            q == upsert_pool(p.st, record.pool.s, c.id, p.id, record, py_now, sql_now)
            r == upsert_snapshot(q.st, record.pool.s, record, snap_date, fetch_time)
        IN  IF ~q.ok THEN [st |-> q.st, n |-> 0, ok |-> FALSE]
            ELSE IF ~r.ok THEN [st |-> r.st, n |-> 0, ok |-> FALSE]
            ELSE [st |-> r.st, n |-> 1, ok |-> TRUE]

\* [st, n, ok]: the store after the iteration, what it adds to `ingested`,
\* and whether it returned (ok) or raised.
process_record(s, record, snap_date, fetch_time, py_now, sql_now) ==
    IF Skipped(record)
    THEN [st |-> s, n |-> 0, ok |-> TRUE]
    ELSE
    LET c == upsert_chain(s, record.chain.s)
        p == ensure_project(c.st, record.project.s, py_now, sql_now)
        q == upsert_pool(p.st, record.pool.s, c.id, p.id, record, py_now, sql_now)
        r == upsert_snapshot(q.st, record.pool.s, record, snap_date, fetch_time)
    IN  IF ~q.ok THEN [st |-> q.st, n |-> 0, ok |-> FALSE]
        ELSE IF ~r.ok THEN [st |-> r.st, n |-> 0, ok |-> FALSE]
        ELSE [st |-> r.st, n |-> 1, ok |-> TRUE]


\* `with engine.begin() as connection:` commits when the block returns and
\* rolls back when it raises; sequence values drawn inside are not returned.
Commit(committed, working) == working

\* A block that keeps what was written before the exception (autocommit).
Rollback_keeps_work(committed, working) == working

Rollback(committed, working) == [committed EXCEPT !.seq = working.seq]

-----------------------------------------------------------------------------
(* Feed records *)

PoolRecord(pool, chain, project, symbol, tvlUsd, count) ==
    [pool |-> pool, chain |-> chain, project |-> project, symbol |-> symbol,
     tvlUsd |-> tvlUsd, count |-> count]

ProtocolRecord(name, slug, tvl) == [name |-> name, slug |-> slug, tvl |-> tvl]

NoRecord == NULL

-----------------------------------------------------------------------------
(* main(): one invocation after another *)

\* main() is not running, or is about to fetch the protocols feed
Resting == {"idle", "done", "aborted", "connected"}

NoTime == 0 - 1

ReplayVars == <<payload, counts>>
ConcVars == <<cdb, own, locks, feed, rpc, stmt, locals>>
WaitVars == <<attempt, waited>>
OtherVars == <<ReplayVars, ConcVars, WaitVars>>

InitSeq ==
    /\ db = EmptyStore
    /\ tx = EmptyStore
    /\ pc = "idle"
    /\ clock = 0
    /\ tx_now = NoTime
    /\ snapshot_date = NoTime
    /\ fetched_at = NoTime
    /\ ingested = 0
    /\ upserted = 0
    /\ failed = "none"
    /\ current = NoRecord
    /\ pos = 0
    /\ used = 0

\* Time passes between the steps of main(); the statements of one
\* transaction block are issued within one tick.
Tick ==
    /\ pc \notin {"sync_loop", "process_loop"}
    /\ clock < MaxClock
    /\ clock' = clock + 1
    /\ UNCHANGED <<db, tx, pc, tx_now, snapshot_date, fetched_at, ingested,
                   upserted, failed, current, pos, used, OtherVars>>

\* main() is invoked and fetch_protocols returns a list.
MainBegins ==
    /\ pc \in Resting
    /\ pc' = "sync_projects"
    /\ tx' = db
    /\ tx_now' = NoTime
    /\ snapshot_date' = NoTime
    /\ fetched_at' = NoTime
    /\ ingested' = 0
    /\ upserted' = 0
    /\ failed' = "none"
    /\ current' = NoRecord
    /\ pos' = 0
    /\ UNCHANGED <<db, clock>>

FetchProtocolsOk ==
    /\ MainBegins
    /\ UNCHANGED <<used, OtherVars>>

\* main() is invoked and fetch_protocols raises (timeout, raise_for_status,
\* payload that is not a list): nothing in main() catches it.
FetchProtocolsRaise ==
    /\ pc \in Resting
    /\ pc' = "aborted"
    /\ failed' = "fetch_protocols"
    /\ tx' = db
    /\ tx_now' = NoTime
    /\ snapshot_date' = NoTime
    /\ fetched_at' = NoTime
    /\ ingested' = 0
    /\ upserted' = 0
    /\ current' = NoRecord
    /\ pos' = 0
    /\ UNCHANGED <<db, clock, used, OtherVars>>

\* sync_projects: `if not protocols: return 0`
SyncEmpty ==
    /\ pc = "sync_projects"
    /\ pc' = "fetch_pools"
    /\ UNCHANGED <<db, tx, clock, tx_now, snapshot_date, fetched_at, ingested,
                   upserted, failed, current, pos, used, OtherVars>>

\* sync_projects: `isinstance(record, dict)`; an element that is not an object
\* is a JSON scalar
isinstance_dict(record) == "k" \notin DOMAIN record

\* sync_projects: `with engine.begin() as connection:` on a non-empty feed
SyncBegin ==
    /\ pc = "sync_projects"
    /\ used < MaxRecords
    /\ pc' = "sync_loop"
    /\ tx' = db
    /\ tx_now' = clock
    /\ UNCHANGED <<db, clock, snapshot_date, fetched_at, ingested, upserted,
                   failed, current, pos, used, OtherVars>>

\* An iteration on a connection in autocommit mode: what the statement wrote
\* is committed when it returns.
SyncRecord_autocommit(rec) ==
    /\ pc = "sync_loop"
    /\ used < MaxRecords
    /\ current' = rec
    /\ LET r == IF isinstance_dict(rec)
                THEN upsert_project_metadata(tx, rec, clock, tx_now)
                ELSE Stmt(tx, NULL, TRUE)
       IN  IF r.ok
           THEN /\ tx' = r.st
                /\ db' = r.st
                /\ upserted' = upserted + (IF r.id # NULL THEN 1 ELSE 0)
                /\ UNCHANGED <<pc, failed>>
           ELSE /\ db' = Rollback(db, r.st)
                /\ tx' = Rollback(db, r.st)
                /\ pc' = "aborted"
                /\ failed' = "sync_projects"
                /\ UNCHANGED upserted
    /\ pos' = pos + 1
    /\ used' = used + 1
    /\ UNCHANGED <<clock, tx_now, snapshot_date, fetched_at, ingested, OtherVars>>

\* An iteration that counts every element of the feed.
SyncRecord_counts_every_entry(rec) ==
    /\ pc = "sync_loop"
    /\ used < MaxRecords
    /\ current' = rec
    /\ LET r == IF isinstance_dict(rec)
                THEN upsert_project_metadata(tx, rec, clock, tx_now)
                ELSE Stmt(tx, NULL, TRUE)
       IN  IF r.ok
           THEN /\ tx' = r.st
                /\ upserted' = upserted + 1
                /\ UNCHANGED <<db, pc, failed>>
           ELSE /\ db' = Rollback(db, r.st)
                /\ tx' = Rollback(db, r.st)
                /\ pc' = "aborted"
                /\ failed' = "sync_projects"
                /\ UNCHANGED upserted
    /\ pos' = pos + 1
    /\ used' = used + 1
    /\ UNCHANGED <<clock, tx_now, snapshot_date, fetched_at, ingested, OtherVars>>

\* sync_projects: one iteration of `for record in protocols`: an element that
\* is not an object is passed over; a statement that raises leaves the block
\* (rollback) and main()
SyncRecord(rec) ==
    /\ pc = "sync_loop"
    /\ used < MaxRecords
    /\ current' = rec
    /\ LET r == IF isinstance_dict(rec)
                THEN upsert_project_metadata(tx, rec, clock, tx_now)
                ELSE Stmt(tx, NULL, TRUE)
       IN  IF r.ok
           THEN /\ tx' = r.st
                /\ upserted' = upserted + (IF r.id # NULL THEN 1 ELSE 0)
                /\ UNCHANGED <<db, pc, failed>>
           ELSE /\ db' = Rollback(db, r.st)
                /\ tx' = Rollback(db, r.st)
                /\ pc' = "aborted"
                /\ failed' = "sync_projects"
                /\ UNCHANGED upserted
    /\ pos' = pos + 1
    /\ used' = used + 1
    /\ UNCHANGED <<clock, tx_now, snapshot_date, fetched_at, ingested, OtherVars>>

\* sync_projects: the feed is exhausted, the block commits and main() goes on
SyncCommit ==
    /\ pc = "sync_loop"
    /\ pos > 0
    /\ db' = Commit(db, tx)
    /\ pc' = "fetch_pools"
    /\ pos' = 0
    /\ UNCHANGED <<tx, clock, tx_now, snapshot_date, fetched_at, ingested,
                   upserted, failed, current, used, OtherVars>>

\* fetch_pools returns the `data` list
FetchPoolsOk ==
    /\ pc = "fetch_pools"
    /\ pc' = "process_records"
    /\ UNCHANGED <<db, tx, clock, tx_now, snapshot_date, fetched_at, ingested,
                   upserted, failed, current, pos, used, OtherVars>>

\* fetch_pools raises (timeout, raise_for_status, no `data` list)
FetchPoolsRaise ==
    /\ pc = "fetch_pools"
    /\ pc' = "aborted"
    /\ failed' = "fetch_pools"
    /\ UNCHANGED <<db, tx, clock, tx_now, snapshot_date, fetched_at, ingested,
                   upserted, current, pos, used, OtherVars>>

\* process_records: snapshot_date = datetime.now(timezone.utc).date()
ReadSnapshotDate ==
    /\ pc = "process_records"
    /\ snapshot_date' = DateOf(clock)
    /\ pc' = "read_fetched_at"
    /\ UNCHANGED <<db, tx, clock, tx_now, fetched_at, ingested, upserted,
                   failed, current, pos, used, OtherVars>>

\* process_records: fetched_at = datetime.now(timezone.utc); ingested = 0;
\* `with engine.begin() as connection:`
ReadFetchedAt ==
    /\ pc = "read_fetched_at"
    /\ fetched_at' = clock
    /\ ingested' = 0
    /\ tx' = db
    /\ tx_now' = clock
    /\ current' = NoRecord
    /\ pc' = "process_loop"
    /\ UNCHANGED <<db, clock, snapshot_date, upserted, failed, pos, used,
                   OtherVars>>

\* process_records: one iteration of `for record in records`; a statement that
\* raises leaves the block (rollback) and main()
ProcessRecord(rec) ==
    /\ pc = "process_loop"
    /\ used < MaxRecords
    /\ current' = rec
    /\ LET r == process_record(tx, rec, snapshot_date, fetched_at, clock, tx_now)
       IN  IF r.ok
           THEN /\ tx' = r.st
                /\ ingested' = ingested + r.n
                /\ UNCHANGED <<db, pc, failed>>
           ELSE /\ db' = Rollback(db, r.st)
                /\ tx' = Rollback(db, r.st)
                /\ pc' = "aborted"
                /\ failed' = "process_records"
                /\ UNCHANGED ingested
    /\ pos' = pos + 1
    /\ used' = used + 1
    /\ UNCHANGED <<clock, tx_now, snapshot_date, fetched_at, upserted, OtherVars>>

\* process_records: the feed is exhausted, the block commits, `return ingested`
ProcessCommit ==
    /\ pc = "process_loop"
    /\ db' = Commit(db, tx)
    /\ pc' = "done"
    /\ UNCHANGED <<tx, clock, tx_now, snapshot_date, fetched_at, ingested,
                   upserted, failed, current, pos, used, OtherVars>>

InitReplayIdle ==
    /\ payload = [protocols |-> <<>>, pools |-> <<>>]
    /\ counts = [run |-> "none"]

\* The overlapping invocations of main()
Runs == {"A", "B"}

\* What an open transaction has written: the committed rows it replaced and
\* the rows it put in their place or inserted
NoWrites == [del |-> Tables(EmptyStore), add |-> Tables(EmptyStore)]

NoLocals ==
    [snapshot_date |-> NoTime, fetched_at |-> NoTime, tx_now |-> NoTime,
     ingested |-> 0, chain_id |-> NULL, project_id |-> NULL]

InitConcIdle ==
    /\ cdb = EmptyStore
    /\ own = [r \in Runs |-> NoWrites]
    /\ locks = [r \in Runs |-> {}]
    /\ feed = [r \in Runs |-> <<>>]
    /\ rpc = [r \in Runs |-> "idle"]
    /\ stmt = [r \in Runs |-> [i |-> 1, at |-> "chain"]]
    /\ locals = [r \in Runs |-> NoLocals]

InitWaitIdle == attempt = 1 /\ waited = 0

Init == InitSeq /\ InitReplayIdle /\ InitConcIdle /\ InitWaitIdle

-----------------------------------------------------------------------------
(* Specification Spec: runs whose pools feed varies the identifiers *)

\* Two pools that live on either of two chain/project pairs, and records with
\* one defect each: no pool id, an empty chain name, no project (on a chain
\* not seen otherwise), and a `count` the INTEGER column refuses.
PoolRecords ==
    {PoolRecord(Str(p), Str(cj[1]), Str(cj[2]), NULL, Num(1), NULL) :
        p \in {"p1", "p2"}, cj \in {<<"c1", "a">>, <<"c2", "b">>}}
    \cup
    {PoolRecord(NULL, Str("c1"), Str("a"), NULL, Num(1), NULL),
     PoolRecord(Str("p1"), Str(""), Str("a"), NULL, Num(1), NULL),
     PoolRecord(Str("p1"), Str("c3"), NULL, NULL, Num(1), NULL),
     PoolRecord(Str("p2"), Str("c1"), Str("b"), NULL, Num(1), Str("x"))}

ProtocolRecords == {ProtocolRecord(Str("a"), Str("s1"), Str("1"))}

Next ==
    \/ Tick
    \/ FetchProtocolsOk
    \/ FetchProtocolsRaise
    \/ SyncEmpty
    \/ SyncBegin
    \/ \E rec \in ProtocolRecords : SyncRecord(rec)
    \/ SyncCommit
    \/ FetchPoolsOk
    \/ FetchPoolsRaise
    \/ ReadSnapshotDate
    \/ ReadFetchedAt
    \/ \E rec \in PoolRecords : ProcessRecord(rec)
    \/ ProcessCommit

Spec == Init /\ [][Next]_vars


-----------------------------------------------------------------------------
(* Specification SpecSnap: runs over one pool whose metrics vary *)

SnapPoolRecords ==
    {PoolRecord(Str("p1"), Str("c1"), Str("a"), NULL, t, n) :
        t \in {Num(1), Str("2"), Str("x")}, n \in {NULL, Num(3)}}

SnapProtocolRecords == {ProtocolRecord(Str("a"), NULL, Num(1))}

NextSnap ==
    \/ Tick
    \/ FetchProtocolsOk
    \/ FetchProtocolsRaise
    \/ SyncEmpty
    \/ SyncBegin
    \/ \E rec \in SnapProtocolRecords : SyncRecord(rec)
    \/ SyncCommit
    \/ FetchPoolsOk
    \/ FetchPoolsRaise
    \/ ReadSnapshotDate
    \/ ReadFetchedAt
    \/ \E rec \in SnapPoolRecords : ProcessRecord(rec)
    \/ ProcessCommit

SpecSnap == Init /\ [][NextSnap]_vars

-----------------------------------------------------------------------------
(* Specification SpecMeta: runs whose protocols feed varies *)

MetaProtocolRecords ==
    {ProtocolRecord(Str(n), g, t) :
        n \in {"a", "b"}, g \in {NULL, Str("s1")}, t \in {Str("1"), Str("x")}}
    \cup {ProtocolRecord(Str(""), Str("s2"), Num(2))}

MetaPoolRecords ==
    {PoolRecord(Str("p1"), Str("c1"), Str(j), NULL, Num(1), NULL) :
        j \in {"a", "b"}}

NextMeta ==
    \/ Tick
    \/ FetchProtocolsOk
    \/ FetchProtocolsRaise
    \/ SyncEmpty
    \/ SyncBegin
    \/ \E rec \in MetaProtocolRecords : SyncRecord(rec)
    \/ SyncCommit
    \/ FetchPoolsOk
    \/ FetchPoolsRaise
    \/ ReadSnapshotDate
    \/ ReadFetchedAt
    \/ \E rec \in MetaPoolRecords : ProcessRecord(rec)
    \/ ProcessCommit

SpecMeta == Init /\ [][NextMeta]_vars

-----------------------------------------------------------------------------
(* Specification SpecReplay: a run repeated with the same feeds on one day *)

ReplayProtocolRecords ==
    {ProtocolRecord(Str("a"), Str("s1"), Num(1)),
     ProtocolRecord(Str("b"), Str("s1"), Num(1)),
     ProtocolRecord(Str("b"), Str("s2"), Num(1))}

ReplayPoolRecords ==
    {PoolRecord(Str("p1"), Str("c1"), Str("a"), NULL, Num(1), NULL),
     PoolRecord(Str("p2"), Str("c1"), Str("b"), NULL, Num(1), NULL),
     PoolRecord(Str("p1"), Str("c2"), Str("b"), Str("S"), Str("2"), Num(3)),
     PoolRecord(Str("p1"), Str("c1"), Str("a"), NULL, Num(1), Str("x"))}

\* What fetch_protocols and fetch_pools return: at most n records in all
Payloads(n) ==
    UNION {UNION {{[protocols |-> a, pools |-> b] :
                      a \in [1..i -> ReplayProtocolRecords],
                      b \in [1..j -> ReplayPoolRecords]} :
                  j \in 0..(n - i)} :
           i \in 0..n}

ReplayPayloads == Payloads(MaxRecords)

RowCounts(s) ==
    [chains |-> Cardinality(s.chains), projects |-> Cardinality(s.projects),
     pools |-> Cardinality(s.pools), snaps |-> Cardinality(s.snaps)]

InitReplay == Init

\* The first of the two runs is invoked and fetches its feeds
FirstRunBegins(feeds) ==
    /\ counts.run = "none"
    /\ MainBegins
    /\ payload' = feeds
    /\ counts' = [run |-> "first", day |-> DateOf(clock), rows |-> RowCounts(db)]
    /\ used' = 0
    /\ UNCHANGED <<ConcVars, WaitVars>>

\* main() is invoked again and fetches the same feeds; the rows the first run
\* left are counted
SecondRunBegins ==
    /\ counts.run = "first"
    /\ MainBegins
    /\ counts' = [run |-> "second", day |-> counts.day, rows |-> RowCounts(db)]
    /\ used' = 0
    /\ UNCHANGED <<payload, ConcVars, WaitVars>>

\* The steps of main() on the feeds fetched
FedSyncEmpty ==
    /\ pc = "sync_projects"
    /\ payload.protocols = <<>>
    /\ SyncEmpty

FedSyncBegin ==
    /\ pc = "sync_projects"
    /\ payload.protocols # <<>>
    /\ SyncBegin

FedSyncRecord ==
    /\ pc = "sync_loop"
    /\ pos < Len(payload.protocols)
    /\ SyncRecord(payload.protocols[pos + 1])

FedSyncCommit ==
    /\ pc = "sync_loop"
    /\ pos = Len(payload.protocols)
    /\ SyncCommit

FedProcessRecord ==
    /\ pc = "process_loop"
    /\ pos < Len(payload.pools)
    /\ ProcessRecord(payload.pools[pos + 1])

FedProcessCommit ==
    /\ pc = "process_loop"
    /\ pos = Len(payload.pools)
    /\ ProcessCommit

NextReplay ==
    \/ Tick
    \/ \E feeds \in ReplayPayloads : FirstRunBegins(feeds)
    \/ SecondRunBegins
    \/ FedSyncEmpty
    \/ FedSyncBegin
    \/ FedSyncRecord
    \/ FedSyncCommit
    \/ FetchPoolsOk
    \/ ReadSnapshotDate
    \/ ReadFetchedAt
    \/ FedProcessRecord
    \/ FedProcessCommit

SpecReplay == InitReplay /\ [][NextReplay]_vars

-----------------------------------------------------------------------------
(* Specification SpecConc: two invocations of process_records that overlap, *)
(* each in a transaction of its own (READ COMMITTED), statement by statement *)

MaxFeed == 2

SeqVars ==
    <<db, tx, pc, tx_now, snapshot_date, fetched_at, ingested, upserted,
      failed, current, pos, used, ReplayVars, WaitVars>>

ConcPoolRecords ==
    {PoolRecord(Str("p1"), Str("c1"), Str("a"), NULL, Num(1), NULL),
     PoolRecord(Str("p2"), Str("c2"), Str("b"), NULL, Num(1), NULL),
     PoolRecord(Str("p1"), Str("c1"), Str("a"), NULL, Num(1), Str("x"))}

ConcFeeds == UNION {[1..n -> ConcPoolRecords] : n \in 0..MaxFeed}

\* The store a statement of run r reads and writes: what is committed, with
\* the rows r replaced taken out and the rows r wrote put in
View(r) ==
    [chains |-> (cdb.chains \ own[r].del.chains) \cup own[r].add.chains,
     projects |-> (cdb.projects \ own[r].del.projects) \cup own[r].add.projects,
     pools |-> (cdb.pools \ own[r].del.pools) \cup own[r].add.pools,
     snaps |-> (cdb.snaps \ own[r].del.snaps) \cup own[r].add.snaps,
     seq |-> cdb.seq]

\* The writes of a transaction after a statement took its view from v to w
WrittenTable(del, add, v, w) ==
    [del |-> del \cup ((v \ w) \ add), add |-> (add \ (v \ w)) \cup (w \ v)]

Written(o, v, w) ==
    LET c == WrittenTable(o.del.chains, o.add.chains, v.chains, w.chains)
        j == WrittenTable(o.del.projects, o.add.projects, v.projects, w.projects)
        p == WrittenTable(o.del.pools, o.add.pools, v.pools, w.pools)
        n == WrittenTable(o.del.snaps, o.add.snaps, v.snaps, w.snaps)
    IN  [del |-> [chains |-> c.del, projects |-> j.del, pools |-> p.del,
                  snaps |-> n.del],
         add |-> [chains |-> c.add, projects |-> j.add, pools |-> p.add,
                  snaps |-> n.add]]

\* The record run r is at, and whether r has a statement left to issue
ConcRecord(r) == feed[r][stmt[r].i]

Pending(r) == rpc[r] = "loop" /\ stmt[r].i <= Len(feed[r])

\* The unique key the next statement of run r inserts or updates
NextKey(r) ==
    LET record == ConcRecord(r)
        at == stmt[r].at
    IN  CASE at = "chain" -> [t |-> "chains", k |-> record.chain.s, d |-> NoTime]
          [] at = "project" -> [t |-> "projects", k |-> record.project.s, d |-> NoTime]
          [] at = "pool" -> [t |-> "pools", k |-> record.pool.s, d |-> NoTime]
          [] at = "snapshot" -> [t |-> "snaps", k |-> record.pool.s,
                                 d |-> locals[r].snapshot_date]

\* A unique index that lets a writer pass an uncommitted row of its key.
KeyFree_no_wait(r, key) == TRUE

\* An insert-or-update on a key that another open transaction inserted or
\* updated waits until that transaction ends
KeyFree(r, key) == \A o \in Runs \ {r} : key \notin locks[o]

\* Run r is about to issue a statement on a key that run o holds
Waits(r, o) ==
    /\ Pending(r)
    /\ ~(stmt[r].at = "chain" /\ Skipped(ConcRecord(r)))
    /\ NextKey(r) \in locks[o]

\* The statement run r issues next, on its view of the store
Issue(r) ==
    LET record == ConcRecord(r)
        at == stmt[r].at
        v == View(r)
    IN  CASE at = "chain" -> upsert_chain(v, record.chain.s)
          [] at = "project" ->
                ensure_project(v, record.project.s, clock, locals[r].tx_now)
          [] at = "pool" ->
                upsert_pool(v, record.pool.s, locals[r].chain_id,
                            locals[r].project_id, record, clock, locals[r].tx_now)
          [] at = "snapshot" ->
                upsert_snapshot(v, record.pool.s, record,
                                locals[r].snapshot_date, locals[r].fetched_at)

\* Where run r is after the statement returned
After(r) ==
    LET at == stmt[r].at
    IN  CASE at = "chain" -> [i |-> stmt[r].i, at |-> "project"]
          [] at = "project" -> [i |-> stmt[r].i, at |-> "pool"]
          [] at = "pool" -> [i |-> stmt[r].i, at |-> "snapshot"]
          [] at = "snapshot" -> [i |-> stmt[r].i + 1, at |-> "chain"]

\* The locals of run r after the statement returned id
Bound(r, id) ==
    LET at == stmt[r].at
    IN  CASE at = "chain" -> [locals[r] EXCEPT !.chain_id = id]
          [] at = "project" -> [locals[r] EXCEPT !.project_id = id]
          [] at = "pool" -> locals[r]
          [] at = "snapshot" -> [locals[r] EXCEPT !.ingested = @ + 1]

\* process_records is called with the fetched records: snapshot_date,
\* fetched_at, ingested = 0, `with engine.begin() as connection:`.  The runs
\* are named in the order of their invocation.
ConcBegin(r, records) ==
    /\ rpc[r] = "idle"
    /\ r = "B" => rpc["A"] # "idle"
    /\ rpc' = [rpc EXCEPT ![r] = "loop"]
    /\ feed' = [feed EXCEPT ![r] = records]
    /\ stmt' = [stmt EXCEPT ![r] = [i |-> 1, at |-> "chain"]]
    /\ locals' = [locals EXCEPT ![r] =
                     [snapshot_date |-> DateOf(clock), fetched_at |-> clock,
                      tx_now |-> clock, ingested |-> 0, chain_id |-> NULL,
                      project_id |-> NULL]]
    /\ UNCHANGED <<cdb, own, locks, clock, SeqVars>>

\* The next step of the loop body of run r: the check for missing
\* identifiers, or one statement; a statement on a key another run holds is
\* not issued before that run ends; a statement that raises ends the block
\* with a rollback
ConcStatement(r) ==
    /\ Pending(r)
    /\ IF stmt[r].at = "chain" /\ Skipped(ConcRecord(r))
       THEN /\ stmt' = [stmt EXCEPT ![r] = [i |-> @.i + 1, at |-> "chain"]]
            /\ UNCHANGED <<cdb, own, locks, rpc, locals>>
       ELSE /\ KeyFree(r, NextKey(r))
            /\ LET res == Issue(r)
               IN  IF res.ok
                   THEN /\ cdb' = [cdb EXCEPT !.seq = res.st.seq]
                        /\ own' = [own EXCEPT ![r] = Written(@, View(r), res.st)]
                        /\ locks' = [locks EXCEPT ![r] = @ \cup {NextKey(r)}]
                        /\ locals' = [locals EXCEPT ![r] = Bound(r, res.id)]
                        /\ stmt' = [stmt EXCEPT ![r] = After(r)]
                        /\ UNCHANGED rpc
                   ELSE /\ cdb' = Rollback(cdb, res.st)
                        /\ own' = [own EXCEPT ![r] = NoWrites]
                        /\ locks' = [locks EXCEPT ![r] = {}]
                        /\ rpc' = [rpc EXCEPT ![r] = "aborted"]
                        /\ UNCHANGED <<stmt, locals>>
    /\ UNCHANGED <<clock, feed, SeqVars>>

\* The loop of run r is over: the block commits and process_records returns
ConcCommit(r) ==
    /\ rpc[r] = "loop"
    /\ stmt[r].i > Len(feed[r])
    /\ cdb' = Commit(cdb, View(r))
    /\ own' = [own EXCEPT ![r] = NoWrites]
    /\ locks' = [locks EXCEPT ![r] = {}]
    /\ rpc' = [rpc EXCEPT ![r] = "committed"]
    /\ UNCHANGED <<clock, feed, stmt, locals, SeqVars>>

\* Run r and another run each wait for a key the other holds: the server ends
\* the statement of one of them with a deadlock error, which nothing in
\* process_records or main() catches; the block rolls back
ConcDeadlock(r) ==
    /\ \E o \in Runs \ {r} : Waits(r, o) /\ Waits(o, r)
    /\ own' = [own EXCEPT ![r] = NoWrites]
    /\ locks' = [locks EXCEPT ![r] = {}]
    /\ rpc' = [rpc EXCEPT ![r] = "deadlocked"]
    /\ UNCHANGED <<cdb, clock, feed, stmt, locals, SeqVars>>

NextConc ==
    \/ \E r \in Runs, records \in ConcFeeds : ConcBegin(r, records)
    \/ \E r \in Runs : ConcStatement(r)
    \/ \E r \in Runs : ConcCommit(r)
    \/ \E r \in Runs : ConcDeadlock(r)

SpecConc == Init /\ [][NextConc]_vars

-----------------------------------------------------------------------------
(* Specification SpecWait: main() from wait_for_database on *)

retries == 10

delay == 3

WaitFrame ==
    UNCHANGED <<db, clock, tx_now, snapshot_date, fetched_at, ingested,
                upserted, current, pos, used, ReplayVars, ConcVars>>

\* main() is invoked: get_engine(), wait_for_database(engine) enters its loop
WaitBegin ==
    /\ pc \in {"idle", "done", "aborted"}
    /\ pc' = "wait_for_database"
    /\ attempt' = 1
    /\ waited' = 0
    /\ failed' = "none"
    /\ tx' = db
    /\ WaitFrame

\* An attempt connects and SELECT NOW() returns: wait_for_database returns
ConnectOk ==
    /\ pc = "wait_for_database"
    /\ attempt <= retries
    /\ pc' = "connected"
    /\ UNCHANGED <<tx, failed, attempt, waited>>
    /\ WaitFrame

\* An attempt raises OperationalError: time.sleep(delay), next attempt
ConnectFails ==
    /\ pc = "wait_for_database"
    /\ attempt <= retries
    /\ attempt' = attempt + 1
    /\ waited' = waited + delay
    /\ UNCHANGED <<pc, tx, failed>>
    /\ WaitFrame

\* A loop exit that starts the loop over.
WaitRaise_starts_over ==
    /\ pc = "wait_for_database"
    /\ attempt > retries
    /\ attempt' = 1
    /\ UNCHANGED <<pc, tx, failed, waited>>
    /\ WaitFrame

\* The loop is exhausted: raise RuntimeError, which ends main()
WaitRaise ==
    /\ pc = "wait_for_database"
    /\ attempt > retries
    /\ pc' = "aborted"
    /\ failed' = "wait_for_database"
    /\ UNCHANGED <<tx, attempt, waited>>
    /\ WaitFrame

\* main() goes on after wait_for_database returned
ConnectedFetchProtocolsOk == pc = "connected" /\ FetchProtocolsOk

ConnectedFetchProtocolsRaise == pc = "connected" /\ FetchProtocolsRaise

WaitPoolRecords ==
    {PoolRecord(Str("p1"), Str("c1"), Str("a"), NULL, Num(1), NULL)}

NextWait ==
    \/ Tick
    \/ WaitBegin
    \/ ConnectOk
    \/ ConnectFails
    \/ WaitRaise
    \/ ConnectedFetchProtocolsOk
    \/ ConnectedFetchProtocolsRaise
    \/ SyncEmpty
    \/ SyncBegin
    \/ \E rec \in ProtocolRecords : SyncRecord(rec)
    \/ SyncCommit
    \/ FetchPoolsOk
    \/ FetchPoolsRaise
    \/ ReadSnapshotDate
    \/ ReadFetchedAt
    \/ \E rec \in WaitPoolRecords : ProcessRecord(rec)
    \/ ProcessCommit

SpecWait == Init /\ [][NextWait]_vars

\* Every attempt returns or raises, and every sleep ends
SpecWaitFair ==
    SpecWait /\ WF_vars(ConnectOk \/ ConnectFails \/ WaitRaise)

-----------------------------------------------------------------------------
(* Specification SpecPool: upsert_pool called on its own, on the stores that *)
(* runs of main() leave                                                     *)

PoolFeedRecords ==
    {PoolRecord(Str("p1"), Str("c1"), Str("a"), NULL, Num(1), NULL),
     PoolRecord(Str("p1"), Str("c2"), Str("b"), NULL, Num(1), NULL)}

PoolCallRecords ==
    {PoolRecord(Str(p), Str("c1"), Str("a"), y, Num(1), NULL) :
        p \in {"p1", "p2"}, y \in {NULL, Str("S")}}

\* upsert_pool(connection, pool_id, chain_id, project_id, record) as the one
\* statement of a transaction, with the ids of rows that exist; `current`
\* holds the arguments of the call
CallUpsertPool(rec, c, j) ==
    /\ pc \in {"idle", "done", "aborted"}
    /\ used < MaxRecords
    /\ LET q == upsert_pool(db, rec.pool.s, c.id, j.id, rec, clock, clock)
       IN  /\ q.ok
           /\ db' = Commit(db, q.st)
           /\ tx' = q.st
    /\ current' = [record |-> rec, chain_id |-> c.id, project_id |-> j.id]
    /\ tx_now' = clock
    /\ used' = used + 1
    /\ UNCHANGED <<pc, clock, snapshot_date, fetched_at, ingested, upserted,
                   failed, pos, OtherVars>>

NextPool ==
    \/ Tick
    \/ FetchProtocolsOk
    \/ SyncEmpty
    \/ FetchPoolsOk
    \/ ReadSnapshotDate
    \/ ReadFetchedAt
    \/ \E rec \in PoolFeedRecords : ProcessRecord(rec)
    \/ ProcessCommit
    \/ \E rec \in PoolCallRecords : \E c \in db.chains : \E j \in db.projects :
          CallUpsertPool(rec, c, j)

SpecPool == Init /\ [][NextPool]_vars

-----------------------------------------------------------------------------
(* Specification SpecSync: one run on a protocols feed that holds elements  *)
(* that are not objects and objects without a name                          *)

SyncProtocolEntries ==
    {ProtocolRecord(Str("a"), NULL, Num(1)),
     ProtocolRecord(Str("b"), Str("s1"), Num(1)),
     ProtocolRecord(Str("c"), Str("s1"), Num(1)),
     ProtocolRecord(NULL, Str("s2"), Num(1)),
     ProtocolRecord(Str(""), Str("s3"), Num(1)),
     Str("a"),
     NULL}

\* What fetch_protocols returns: a list of at most MaxRecords elements
SyncPayloads ==
    UNION {{[protocols |-> a, pools |-> <<>>] :
               a \in [1..i -> SyncProtocolEntries]} : i \in 0..MaxRecords}

NextSync ==
    \/ Tick
    \/ \E feeds \in SyncPayloads : FirstRunBegins(feeds)
    \/ FedSyncEmpty
    \/ FedSyncBegin
    \/ FedSyncRecord
    \/ FedSyncCommit
    \/ FetchPoolsRaise

SpecSync == Init /\ [][NextSync]_vars

-----------------------------------------------------------------------------
(* Claims *)

KeyUnique(snaps) ==
    \A r1, r2 \in snaps :
        (r1.pool_id = r2.pool_id /\ r1.snapshot_date = r2.snapshot_date)
            => r1 = r2

\* C1: after any sequence of runs, on any days, pool_snapshots holds at most
\* one row per (pool_id, snapshot_date), committed or inside the open
\* transaction: a same-day rerun never adds a row.
C1_SnapshotKeyUnique == KeyUnique(db.snaps) /\ KeyUnique(tx.snaps)

\* A pool whose day-0 row was overwritten by a later run and that also has a
\* row for another day.
C1_Witness ==
    \E r1, r2 \in db.snaps :
        /\ r1.pool_id = r2.pool_id
        /\ r1.snapshot_date # r2.snapshot_date
        /\ r1.fetched_at > r1.created_at

\* C3: when upsert_snapshot hits an existing (pool_id, snapshot_date) row, the
\* row keeps its id and created_at, and its fetched_at and metrics become
\* those of the run and record that hit it.
C3_OverwriteKeepsCreatedAt ==
    [][(pc = "process_loop" /\ ingested' = ingested + 1) =>
          \A r \in tx.snaps :
              (r.pool_id = current'.pool.s /\ r.snapshot_date = snapshot_date)
              => \E r2 \in tx'.snaps :
                    /\ r2.id = r.id
                    /\ r2.pool_id = r.pool_id
                    /\ r2.snapshot_date = r.snapshot_date
                    /\ r2.created_at = r.created_at
                    /\ r2.fetched_at = fetched_at
                    /\ r2.tvl_usd = to_decimal(current'.tvlUsd)
                    /\ r2.observation_count = current'.count]_vars

\* The first row of the table, created at tick 0, after two overwrites, the
\* last one at tick 1 with tvlUsd "2".
C3_Witness ==
    \E r \in db.snaps :
        /\ r.id = 1
        /\ r.created_at = 0
        /\ r.fetched_at = 1
        /\ r.tvl_usd = Num(2)
        /\ db.seq.snaps = 3

\* C6: in every committed state each pools row references an existing chains
\* row and an existing projects row, and each pool_snapshots row an existing
\* pools row.
C6_ReferentialCompleteness ==
    /\ \A p \in db.pools :
          /\ \E c \in db.chains : c.id = p.chain_id
          /\ \E j \in db.projects : j.id = p.project_id
    /\ \A r \in db.snaps : \E p \in db.pools : p.pool_id = r.pool_id

\* Two committed pools on two chains and two projects, with their snapshots.
C6_Witness ==
    /\ Cardinality(db.pools) = 2
    /\ Cardinality(db.snaps) >= 2
    /\ Cardinality({p.chain_id : p \in db.pools}) = 2
    /\ Cardinality({p.project_id : p \in db.pools}) = 2

\* C7: a failure of the metadata stage (the protocols fetch or the write in
\* sync_projects) does not end the run: main() never stops there.
C7_MetadataFailureIsolated ==
    failed \in {"fetch_protocols", "sync_projects"} => pc # "aborted"

\* C8: nothing written inside process_records is committed before the block
\* returns, and when a record's write raises the committed tables are those
\* from before the call.
C8_PoolFeedAtomic ==
    [][(pc = "process_loop" /\ pc' # "done") =>
          /\ Tables(db') = Tables(db)
          /\ (pc' = "aborted" => Tables(tx') = Tables(db))]_vars

\* A run over a non-empty store that ingested a record and then raised.
C8_Witness ==
    /\ pc = "aborted"
    /\ failed = "process_records"
    /\ ingested >= 1
    /\ db.pools # {}
    /\ db.seq.snaps >= 2

MissingIdentifier(r) ==
    \/ r.pool \in {NULL, Str("")}
    \/ r.chain \in {NULL, Str("")}
    \/ r.project \in {NULL, Str("")}

\* C9: a record without a pool id, chain name or project name executes no
\* statement (no row, no sequence value), adds nothing to the count, and the
\* loop goes on.
C9_SkippedRecordWritesNothing ==
    [][(pc = "process_loop" /\ pos' = pos + 1 /\ MissingIdentifier(current')) =>
          /\ tx' = tx
          /\ db' = db
          /\ ingested' = ingested
          /\ pc' = "process_loop"]_vars

\* The second record of a feed is ingested after the first was skipped.
C9_Witness ==
    /\ pc = "process_loop"
    /\ pos = 2
    /\ ingested = 1
    /\ ~MissingIdentifier(current)
    /\ Cardinality(tx.pools) = 1

MetadataKept(before, after) ==
    \A r \in before :
        \E r2 \in after :
            /\ r2.id = r.id
            /\ r2.name = r.name
            /\ r2.slug = r.slug
            /\ r2.tvl = r.tvl
            /\ r2.created_at = r.created_at

\* C10: no step of process_records changes the metadata columns or the
\* created_at of a projects row, inside the transaction or at its commit.
C10_PoolIngestionKeepsMetadata ==
    [][pc = "process_loop" =>
          /\ (pc' = "process_loop" => MetadataKept(tx.projects, tx'.projects))
          /\ MetadataKept(db.projects, db'.projects)]_vars

\* A committed pool of a project that carries metadata written by
\* sync_projects and was touched by pool ingestion later.
C10_Witness ==
    /\ pc = "done"
    /\ ingested >= 1
    /\ \E p \in db.pools : \E j \in db.projects :
          /\ j.id = p.project_id
          /\ j.slug # NULL
          /\ j.tvl # NULL


\* C2: when the second of two runs with the same feeds has ended on the UTC
\* day on which the first began, chains, projects, pools and pool_snapshots
\* hold as many rows as the first run left.
C2_RerunKeepsRowCounts ==
    (/\ counts.run = "second"
     /\ pc \in {"done", "aborted"}
     /\ DateOf(clock) = counts.day)
        => RowCounts(db) = counts.rows

\* Both feeds non-empty, rows in every table, and the second run later than
\* the first on the same day.
C2_Witness ==
    /\ counts.run = "second"
    /\ pc = "done"
    /\ DateOf(clock) = counts.day
    /\ payload.protocols # <<>>
    /\ Len(payload.pools) = 2
    /\ counts.rows.pools = 2
    /\ counts.rows.projects = 2
    /\ \E r \in db.snaps : r.fetched_at > r.created_at

\* C4: however two overlapping runs interleave, the committed store holds at
\* most one chains row per name, one projects row per name, one pools row per
\* pool id and one pool_snapshots row per (pool id, snapshot date).
C4_ConcurrentKeysUnique ==
    /\ \A a, b \in cdb.chains : a.name = b.name => a = b
    /\ \A a, b \in cdb.projects : a.name = b.name => a = b
    /\ \A a, b \in cdb.pools : a.pool_id = b.pool_id => a = b
    /\ KeyUnique(cdb.snaps)

\* Both runs have committed a record of the same chain, project, pool and
\* day, and the one that wrote second had begun before the first committed
\* (the id it drew for the chain is older than the committed chain's).
C4_Witness ==
    /\ rpc["A"] = "committed"
    /\ rpc["B"] = "committed"
    /\ locals["A"].ingested > 0
    /\ locals["B"].ingested > 0
    /\ locals["A"].snapshot_date = locals["B"].snapshot_date
    /\ \E i \in 1..Len(feed["A"]), j \in 1..Len(feed["B"]) :
          /\ feed["A"][i] = feed["B"][j]
          /\ ~Skipped(feed["A"][i])
    /\ Cardinality(cdb.chains) < cdb.seq.chains
    /\ cdb.snaps # {}

\* C5: no run is ended by the server because it and another run each waited
\* for a key the other held.
C5_NoRunAbortedByLockCycle == \A r \in Runs : rpc[r] # "deadlocked"

\* C11: when an iteration of sync_projects meets a record whose name has a
\* committed projects row without metadata (as ensure_project creates it),
\* the transaction afterwards holds exactly one row of that name, under the same
\* id, and every pools row still references an existing projects row.
C11_SyncUpdatesMinimalRowInPlace ==
    [][(pc = "sync_loop" /\ pos' = pos + 1 /\ Truthy(current'.name)) =>
          \A j \in tx.projects \cap db.projects :
              (j.name = current'.name.s /\ j.slug = NULL /\ j.tvl = NULL)
              => /\ Cardinality({k \in tx'.projects : k.name = j.name}) = 1
                 /\ \E k \in tx'.projects : k.name = j.name /\ k.id = j.id
                 /\ \A p \in tx'.pools :
                        \E k \in tx'.projects : k.id = p.project_id]_vars

\* The committed row of a name, referenced by a pool, is still the minimal
\* row pool ingestion created, and in the open sync transaction the same row
\* carries the metadata of the record just upserted.
C11_Witness ==
    /\ pc = "sync_loop"
    /\ current # NoRecord
    /\ \E j \in db.projects : \E k \in tx.projects : \E p \in db.pools :
          /\ j.slug = NULL
          /\ j.tvl = NULL
          /\ p.project_id = j.id
          /\ k.id = j.id
          /\ k.name = current.name.s
          /\ k.slug # NULL
          /\ k.tvl # NULL

\* C12: when upsert_project_metadata returns for a record whose name has a
\* row, the transaction afterwards holds one row of that name, with the id,
\* name and created_at it had and with slug and tvl equal to the coerced
\* values of the record, null where the record carries none.
C12_MetadataFullReplace ==
    [][(pc = "sync_loop" /\ pc' = "sync_loop" /\ pos' = pos + 1
            /\ Truthy(current'.name)) =>
          \A j \in tx.projects :
              j.name = current'.name.s
              => /\ Cardinality({k \in tx'.projects : k.name = j.name}) = 1
                 /\ \E k \in tx'.projects :
                        /\ k.id = j.id
                        /\ k.name = j.name
                        /\ k.created_at = j.created_at
                        /\ k.slug = current'.slug
                        /\ k.tvl = to_decimal(current'.tvl)]_vars

\* A committed row with a slug and a tvl that the record just upserted, which
\* carries neither, has left with both null.
C12_Witness ==
    /\ pc = "sync_loop"
    /\ current # NoRecord
    /\ \E j \in db.projects : \E k \in tx.projects :
          /\ j.slug # NULL
          /\ j.tvl # NULL
          /\ k.id = j.id
          /\ k.name = current.name.s
          /\ k.created_at = j.created_at
          /\ k.slug = NULL
          /\ k.tvl = NULL

\* C13: when process_records has returned and every snapshot statement the
\* store ever saw was issued by this run, the count it returned is the number
\* of pools rows in the store, each with its pool_snapshots row of the run's
\* day.
C13_CountIsDistinctPairs ==
    (pc = "done" /\ db.seq.snaps = ingested) =>
        /\ ingested = Cardinality(db.pools)
        /\ \A p \in db.pools :
              \E r \in db.snaps :
                  r.pool_id = p.pool_id /\ r.snapshot_date = snapshot_date

\* C14: no run ends with an exception raised inside process_records: a
\* record with a defect is skipped or written with nulls, and the loop goes
\* on to its commit.
C14_RecordDefectNeverAborts == pc = "aborted" => failed # "process_records"

\* The rows of chain, project, pool and snapshot of a record: present, and
\* (when asked) bound to each other and carrying the record's coerced values
RecordStored(s, record, day, exact) ==
    \E c \in s.chains : \E j \in s.projects : \E p \in s.pools :
    \E r \in s.snaps :
        /\ c.name = record.chain.s
        /\ j.name = record.project.s
        /\ p.pool_id = record.pool.s
        /\ r.pool_id = record.pool.s
        /\ r.snapshot_date = day
        /\ exact => /\ p.chain_id = c.id
                    /\ p.project_id = j.id
                    /\ p.symbol = record.symbol
                    /\ r.tvl_usd = to_decimal(record.tvlUsd)
                    /\ r.observation_count = IntegerColumn(record.count)

LastOfItsPool(records, i) ==
    \A k \in (i + 1)..Len(records) :
        Skipped(records[k]) \/ records[k].pool # records[i].pool

\* C15 (as stated): after a run that commits, every record of the pools feed
\* that has its three identifiers has its chains, projects, pools and
\* same-day pool_snapshots rows, the pool bound to that chain and project and
\* the snapshot carrying the coerced metrics of the record.
C15_EveryRecordStored ==
    (pc = "done" /\ counts.run # "none") =>
        \A i \in 1..Len(payload.pools) :
            ~Skipped(payload.pools[i]) =>
                RecordStored(db, payload.pools[i], snapshot_date, TRUE)

\* C15 (amended): after a run that commits, every record of the pools feed
\* that has its three identifiers has its chains, projects, pools and
\* same-day pool_snapshots rows; the pool is bound to the chain and project,
\* and the snapshot carries the coerced metrics, of the last record of that
\* pool id in the feed.
C15_LastRecordStored ==
    (pc = "done" /\ counts.run # "none") =>
        \A i \in 1..Len(payload.pools) :
            ~Skipped(payload.pools[i]) =>
                RecordStored(db, payload.pools[i], snapshot_date,
                             LastOfItsPool(payload.pools, i))

\* A committed run whose feed names pool p1 twice, on different chains and
\* with different metrics.
C15_Witness ==
    /\ pc = "done"
    /\ counts.run = "second"
    /\ Len(payload.pools) = 2
    /\ payload.pools[1].pool = payload.pools[2].pool
    /\ payload.pools[1].chain # payload.pools[2].chain
    /\ payload.pools[1].tvlUsd # payload.pools[2].tvlUsd
    /\ ingested = 2

\* C16: whenever the committed store changes, every pools row that is new or
\* changed in it comes with the pool_snapshots row of that pool and of the
\* run's day, fetched by the same run, and every pool_snapshots row that is
\* new or changed comes with its pools row as the same run wrote it.
C16_PoolAndSnapshotVisibleTogether ==
    [][/\ \A p \in db'.pools \ db.pools :
              \E r \in db'.snaps :
                  /\ r.pool_id = p.pool_id
                  /\ r.snapshot_date = snapshot_date
                  /\ r.fetched_at = fetched_at
       /\ \A r \in db'.snaps \ db.snaps :
              \E p \in db'.pools :
                  p.pool_id = r.pool_id /\ p.updated_at = r.fetched_at]_vars

\* A committed pool created at tick 0 and written again by the run of tick 2,
\* with its snapshots of both days.
C16_Witness ==
    /\ pc = "done"
    /\ \E p \in db.pools :
          /\ p.created_at = 0
          /\ p.updated_at = 2
          /\ \E r1, r2 \in db.snaps :
                /\ r1.pool_id = p.pool_id
                /\ r2.pool_id = p.pool_id
                /\ r1.snapshot_date = 0
                /\ r2.snapshot_date = 1
                /\ r2.fetched_at = 2

\* C17: wait_for_database makes at most `retries` attempts, `delay` seconds
\* apart; it ends, by returning at the first attempt that connects or by
\* raising after the last one fails; it writes nothing, so a run it aborts
\* leaves the store as it found it.
C17_WaitForDatabaseTerminates ==
    /\ [](attempt <= retries + 1 /\ waited = delay * (attempt - 1))
    /\ []((pc = "aborted" /\ failed = "wait_for_database")
              => (attempt = retries + 1 /\ db = tx))
    /\ [][pc = "wait_for_database" => db' = db]_vars
    /\ (pc = "wait_for_database" ~> pc \in {"connected", "aborted"})

\* A run that gave up after ten failed attempts and thirty seconds, on a
\* store an earlier run had filled.
C17_Witness ==
    /\ pc = "aborted"
    /\ failed = "wait_for_database"
    /\ attempt = retries + 1
    /\ waited = retries * delay
    /\ db.pools # {}
    /\ db.snaps # {}

\* C18: the tables change inside a transaction only in the loop of
\* sync_projects, which writes projects alone, and in the loop of
\* process_records; the committed tables do not change while sync_projects
\* loops, and when its loop ends they become all the block wrote (commit,
\* before fetch_pools) or stay as they were (exception, which ends the run).
C18_SyncIsOneTransactionBeforePools ==
    [][/\ Tables(tx') # Tables(tx) => pc \in {"sync_loop", "process_loop"}
       /\ pc = "sync_loop" =>
             /\ tx'.chains = tx.chains
             /\ tx'.pools = tx.pools
             /\ tx'.snaps = tx.snaps
             /\ \/ pc' = "sync_loop" /\ Tables(db') = Tables(db)
                \/ pc' = "fetch_pools" /\ Tables(db') = Tables(tx)
                \/ pc' = "aborted" /\ Tables(db') = Tables(db)
                                   /\ Tables(tx') = Tables(db)
       /\ pc \in {"fetch_pools", "process_records", "read_fetched_at"} =>
             Tables(tx) = Tables(db)]_vars

\* The sync of a run has committed two upserts, and the run is now writing
\* its first pool.
C18_Witness ==
    /\ pc = "process_loop"
    /\ upserted = 2
    /\ ingested = 1
    /\ Cardinality(db.projects) = 2
    /\ db.pools = {}
    /\ tx.pools # {}

\* C19: when an iteration of process_records resolves a chain name or a
\* project name that already has a row, the row is afterwards what it was,
\* in every column, and its id is the one bound to the pool.
C19_CollisionIsNoOpWrite ==
    [][(pc = "process_loop" /\ ingested' = ingested + 1) =>
          /\ \A c \in tx.chains :
                c.name = current'.chain.s =>
                    /\ c \in tx'.chains
                    /\ \E p \in tx'.pools :
                          p.pool_id = current'.pool.s /\ p.chain_id = c.id
          /\ \A j \in tx.projects :
                j.name = current'.project.s =>
                    /\ j \in tx'.projects
                    /\ \E p \in tx'.pools :
                          p.pool_id = current'.pool.s /\ p.project_id = j.id]_vars

\* C20: after upsert_pool has run, the store holds one pools row of the pool
\* id, bound to the chain and project and carrying the symbol of the call;
\* a row the pool id had keeps its created_at, the rows of other pools are
\* as they were, and pool_snapshots is as it was.
C20_UpsertPoolLatestValueOnly ==
    [][(pc \in {"idle", "done", "aborted"} /\ used' = used + 1) =>
          LET pool_id == current'.record.pool.s
          IN  /\ db'.snaps = db.snaps
              /\ Cardinality({p \in db'.pools : p.pool_id = pool_id}) = 1
              /\ \A p \in db'.pools :
                    p.pool_id = pool_id =>
                        /\ p.chain_id = current'.chain_id
                        /\ p.project_id = current'.project_id
                        /\ p.symbol = current'.record.symbol
                        /\ \A o \in db.pools :
                              o.pool_id = pool_id => p.created_at = o.created_at
              /\ \A o \in db.pools :
                    o.pool_id # pool_id => o \in db'.pools]_vars

\* Pool p1, created at tick 0 on chain 1 and project 1 and with a snapshot
\* of that tick, after a call at a later tick that moved it to chain 2 and
\* project 2 and gave it a symbol.
C20_Witness ==
    /\ pc = "done"
    /\ current # NoRecord
    /\ "chain_id" \in DOMAIN current
    /\ \E p \in db.pools : \E r \in db.snaps :
          /\ p.pool_id = current.record.pool.s
          /\ p.chain_id = 2
          /\ p.project_id = 2
          /\ p.symbol = Str("S")
          /\ p.created_at = 0
          /\ p.updated_at > 0
          /\ r.pool_id = p.pool_id
          /\ r.fetched_at = 0

\* An element of the protocols feed that is an object with a non-empty name
NamedObject(e) == "name" \in DOMAIN e /\ e.name # NULL /\ e.name # Str("")

NamedAmong(entries, n) ==
    Cardinality({i \in 1..n : NamedObject(entries[i])})

\* C21: while sync_projects loops, its count is the number of elements read
\* so far that are objects with a non-empty name; when it has returned, the
\* count is the number of such elements of the feed and the names held by
\* projects are the names of these elements: an element that is not an
\* object or has no name wrote nothing, and did not stop the elements after
\* it from being written.
C21_SyncCountsNamedObjects ==
    /\ pc = "sync_loop" =>
          /\ upserted = NamedAmong(payload.protocols, pos)
          /\ {r.name : r \in tx.projects} =
                {payload.protocols[i].name.s :
                    i \in {k \in 1..pos : NamedObject(payload.protocols[k])}}
    /\ pc = "fetch_pools" =>
          /\ upserted = NamedAmong(payload.protocols, Len(payload.protocols))
          /\ {r.name : r \in db.projects} =
                {payload.protocols[i].name.s :
                    i \in {k \in 1..Len(payload.protocols) :
                              NamedObject(payload.protocols[k])}}

\* sync_projects has returned 1 for a feed of three elements: one that is
\* not an object, an object without a name, and after them a named object,
\* which is the one row of projects.
C21_Witness ==
    /\ pc = "fetch_pools"
    /\ Len(payload.protocols) = 3
    /\ ~isinstance_dict(payload.protocols[1])
    /\ isinstance_dict(payload.protocols[2])
    /\ ~NamedObject(payload.protocols[2])
    /\ NamedObject(payload.protocols[3])
    /\ upserted = 1
    /\ {r.name : r \in db.projects} = {payload.protocols[3].name.s}

\* The slug of a protocols record is held by a projects row of another name
SlugHeldByAnother(projects, e) ==
    /\ e.slug # NULL
    /\ \E r \in projects : r.slug = e.slug /\ r.name # e.name.s

\* C22: an iteration of sync_projects on a named record ends the run with
\* the error of sync_projects exactly when the record's slug is held by a
\* row of another name, written earlier in the feed or committed before;
\* the tables are then those committed before the feed.  A record whose
\* name alone is held is upserted and the loop goes on.
C22_SlugCollisionRollsBackSync ==
    [][(pc = "sync_loop" /\ pos' = pos + 1 /\ NamedObject(current')) =>
          IF SlugHeldByAnother(tx.projects, current')
          THEN /\ pc' = "aborted"
               /\ failed' = "sync_projects"
               /\ Tables(db') = Tables(db)
               /\ Tables(tx') = Tables(db)
          ELSE /\ pc' = "sync_loop"
               /\ failed' = failed
               /\ db' = db
               /\ \E r \in tx'.projects :
                     r.name = current'.name.s /\ r.slug = current'.slug]_vars

\* A feed whose first record was upserted and whose second record, of
\* another name and the same slug, ended the run: projects holds no row.
C22_Witness ==
    /\ pc = "aborted"
    /\ failed = "sync_projects"
    /\ pos = 2
    /\ upserted = 1
    /\ current # NoRecord
    /\ current.slug # NULL
    /\ db.projects = {}
    /\ tx.projects = {}

\* C23: every committed pool_snapshots row is dated by the day it was
\* fetched: its snapshot_date is the day of its fetched_at and the day of
\* its created_at.
C23_SnapshotDatedByFetchDay ==
    \A r \in db.snaps :
        /\ r.snapshot_date = DateOf(r.fetched_at)
        /\ r.snapshot_date = DateOf(r.created_at)

=============================================================================
